---- MODULE Spec2Model ----
(***************************************************************************)
(* Model of the diagram endpoint of atoms.tech.                            *)
(*                                                                         *)
(*   src/fetch_req_diagramType.py                 app = "api"              *)
(*   src/python_fastapi/fetch_req_diagramType.py  app = "static"           *)
(*                                                                         *)
(* A text (a Python str) is a sequence of one-character strings.  A TLA+   *)
(* string cannot hold a backtick, so that one character is written BQ.     *)
(* Messages that the code only concatenates and never scans (error         *)
(* details, the prompt file's contents) are sequences of whole tokens.     *)
(***************************************************************************)
EXTENDS Integers, Sequences, FiniteSets, TLC

VARIABLES
    app,            \* which of the two FastAPI applications is deployed
    fetched_data,   \* the module-level dict shared by all requests
    request,        \* request[r]: the parsed DiagramRequest body of request r
    pc,             \* pc[r]: the position of request r's handler coroutine
    running,        \* the coroutine the event loop is executing, 0 when idle
    overlap,        \* overlap[r]: another request was in flight when r started
    local,          \* local[r]: the local variables of r's handler frame
    sent,           \* sent[r]: the prompts passed to model.generate_content
    failed_at,      \* failed_at[r]: the stage whose exception ended request r
    response,       \* response[r]: what the endpoint answered
    fn_in,          \* input of the function under test (function specification)
    fn_out          \* its result

vars == <<app, fetched_data, request, pc, running, overlap, local, sent,
          failed_at, response, fn_in, fn_out>>

handler_vars == <<app, fetched_data, request, pc, running, overlap, local, sent,
                  failed_at, response>>

---------------------------------------------------------------------------
(* Bounds of the model.                                                    *)

NumRequests == 2    \* requests in one run
MaxPad == 1         \* whitespace characters around a generated diagram type
MaxLen == 3         \* length of a generated diagram text

---------------------------------------------------------------------------
(* Python str operations.                                                  *)

BQ == "<backtick>"

\* Characters str.strip() removes (those that occur in the modelled texts).
WS == {" ", "\t", "\n", "\r", "\f"}

\* Line boundaries of str.splitlines() (those that occur in the modelled
\* texts); "\r\n" counts as one boundary.  str.split('\n') knows "\n" only.
LineBreaks == {"\n", "\r", "\f"}

LowerLetters ==
    <<"a", "b", "c", "d", "e", "f", "g", "h", "i", "j", "k", "l", "m",
      "n", "o", "p", "q", "r", "s", "t", "u", "v", "w", "x", "y", "z">>

UpperLetters ==
    <<"A", "B", "C", "D", "E", "F", "G", "H", "I", "J", "K", "L", "M",
      "N", "O", "P", "Q", "R", "S", "T", "U", "V", "W", "X", "Y", "Z">>

Letters == {LowerLetters[i] : i \in 1..26} \cup {UpperLetters[i] : i \in 1..26}

SetMin(S) == CHOOSE m \in S : \A k \in S : m <= k
SetMax(S) == CHOOSE m \in S : \A k \in S : m >= k

LowerChar(c) ==
    IF \E i \in 1..26 : UpperLetters[i] = c
    THEN LowerLetters[CHOOSE i \in 1..26 : UpperLetters[i] = c]
    ELSE c

UpperChar(c) ==
    IF \E i \in 1..26 : LowerLetters[i] = c
    THEN UpperLetters[CHOOSE i \in 1..26 : LowerLetters[i] = c]
    ELSE c

\* str.lower()
PyLower(s) == [i \in 1..Len(s) |-> LowerChar(s[i])]

\* str.strip()
PyStrip(s) ==
    LET keep == {i \in 1..Len(s) : s[i] \notin WS}
    IN  IF keep = {} THEN <<>> ELSE SubSeq(s, SetMin(keep), SetMax(keep))

\* str.startswith(p)
StartsWith(s, p) == Len(s) >= Len(p) /\ SubSeq(s, 1, Len(p)) = p

\* str.endswith(p)
EndsWith(s, p) == Len(s) >= Len(p) /\ SubSeq(s, Len(s) - Len(p) + 1, Len(s)) = p

\* str.split('\n'): always at least one piece
RECURSIVE PySplitNewline(_)
PySplitNewline(s) ==
    LET nl == {i \in 1..Len(s) : s[i] = "\n"}
    IN  IF nl = {} THEN <<s>>
        ELSE LET k == SetMin(nl)
             IN  <<SubSeq(s, 1, k - 1)>> \o PySplitNewline(SubSeq(s, k + 1, Len(s)))

\* str.splitlines(): no piece for the empty string or after a final boundary
RECURSIVE PySplitLines(_)
PySplitLines(s) ==
    LET br == {i \in 1..Len(s) : s[i] \in LineBreaks}
    IN  IF s = <<>> THEN <<>>
        ELSE IF br = {} THEN <<s>>
        ELSE LET k == SetMin(br)
                 n == IF s[k] = "\r" /\ k < Len(s) /\ s[k + 1] = "\n"
                      THEN k + 2 ELSE k + 1
             IN  <<SubSeq(s, 1, k - 1)>> \o PySplitLines(SubSeq(s, n, Len(s)))

\* "\n".join(lines)
RECURSIVE PyJoinNewline(_)
PyJoinNewline(lines) ==
    IF lines = <<>> THEN <<>>
    ELSE IF Len(lines) = 1 THEN lines[1]
    ELSE lines[1] \o <<"\n">> \o PyJoinNewline(Tail(lines))

---------------------------------------------------------------------------
(* String literals of the source.                                          *)

H_graph ==
    <<"g", "r", "a", "p", "h">>
H_flowchart ==
    <<"f", "l", "o", "w", "c", "h", "a", "r", "t">>
H_sequencediagram ==
    <<"s", "e", "q", "u", "e", "n", "c", "e", "d", "i", "a", "g", "r", "a", "m">>
H_classdiagram ==
    <<"c", "l", "a", "s", "s", "d", "i", "a", "g", "r", "a", "m">>
K_sequence ==
    <<"s", "e", "q", "u", "e", "n", "c", "e">>
K_sequenceDiagram ==
    <<"s", "e", "q", "u", "e", "n", "c", "e", "D", "i", "a", "g", "r", "a", "m">>
K_class ==
    <<"c", "l", "a", "s", "s">>
K_classDiagram ==
    <<"c", "l", "a", "s", "s", "D", "i", "a", "g", "r", "a", "m">>

\* The triple-quoted literal of the python_fastapi variant (lines 71-79).
StaticMermaid ==
    <<"\n", " ", " ", " ", " ", " ", " ", " ", " ", "g", "r", "a", "p", "h", " ", "T", "D",
    "\n", " ", " ", " ", " ", " ", " ", " ", " ", "A", "[", "V", "e", "h", "i", "c", "l", "e",
    " ", "i", "n", " ", "m", "o", "t", "i", "o", "n", "]", "-", ">", "B", "{", "S", "e", "a",
    "t", "b", "e", "l", "t", " ", "u", "n", "b", "u", "c", "k", "l", "e", "d", "?", "}", "\n",
    " ", " ", " ", " ", " ", " ", " ", " ", "B", " ", "-", "-", " ", "N", "o", "-", ">", "F",
    "[", "N", "o", " ", "a", "c", "t", "i", "o", "n", "]", "\n", " ", " ", " ", " ", " ", " ",
    " ", " ", "B", " ", "-", "-", "Y", "e", "s", "-", ">", "C", "[", "S", "t", "a", "r", "t",
    " ", "3", "s", " ", "t", "i", "m", "e", "r", "]", "\n", " ", " ", " ", " ", " ", " ", " ",
    " ", "C", " ", "-", ">", " ", "D", "{", "A", "l", "e", "r", "t", " ", "w", "i", "t", "h",
    "i", "n", " ", "3", " ", "s", "e", "c", "o", "n", "d", "s", "?", "}", "\n", " ", " ", " ",
    " ", " ", " ", " ", " ", "D", " ", "-", "-", " ", "Y", "e", "s", "-", "-", "E", "[", "A",
    "l", "e", "r", "t", " ", "d", "r", "i", "v", "e", "r", "]", "\n", " ", " ", " ", " ", " ",
    " ", " ", " ", "D", " ", "-", "-", " ", "N", "o", " ", "-", "-", "G", "[", "T", "i", "m",
    "e", "o", "u", "t", " ", "/", " ", "F", "a", "i", "l", "e", "d", "]", "\n", " ", " ", " ",
    " ", " ", " ", " ", " ">>

---------------------------------------------------------------------------
(* Exceptions and the results of functions that may raise.                 *)

HTTPException(status, detail) ==
    [type |-> "HTTPException", status |-> status, detail |-> detail]

ValueError(msg) == [type |-> "ValueError", status |-> 0, detail |-> msg]

OtherError(type, msg) == [type |-> type, status |-> 0, detail |-> msg]

Returned(v) == [raised |-> FALSE, value |-> v]

Raised(exc) == [raised |-> TRUE, exc |-> exc]

\* str(exc) at line 208: starlette's HTTPException.__str__ gives
\* "<status>: <detail>"; any other exception gives its message.
PyStrExc(exc) ==
    IF exc.type = "HTTPException"
    THEN <<ToString(exc.status), ": ">> \o exc.detail
    ELSE exc.detail

---------------------------------------------------------------------------
(* clean_mermaid_code and convertToJson: the same in both variants.        *)

clean_mermaid_code_swapped(t) ==
    LET code == PyStrip(t)
        start == PyLower(PyStrip(PySplitNewline(code)[1]))
    IN  IF StartsWith(start, H_graph) \/ StartsWith(start, H_flowchart)
        THEN Returned([type |-> "flowchart", code |-> code])
        ELSE IF StartsWith(start, H_sequencediagram)
        THEN Returned([type |-> "classDiagram", code |-> code])
        ELSE IF StartsWith(start, H_classdiagram)
        THEN Returned([type |-> "classDiagram", code |-> code])
        ELSE Raised(ValueError(<<"Invalid mermaid code">>))

clean_mermaid_code(t) ==
    LET code == PyStrip(t)
        start == PyLower(PyStrip(PySplitNewline(code)[1]))
    IN  IF StartsWith(start, H_graph) \/ StartsWith(start, H_flowchart)
        THEN Returned([type |-> "flowchart", code |-> code])
        ELSE IF StartsWith(start, H_sequencediagram)
        THEN Returned([type |-> "sequenceDiagram", code |-> code])
        ELSE IF StartsWith(start, H_classdiagram)
        THEN Returned([type |-> "classDiagram", code |-> code])
        ELSE Raised(ValueError(<<"Invalid mermaid code">>))

JsonOpen ==
    <<"{", "\"", "m", "e", "r", "m", "a", "i", "d", "_", "s", "y", "n", "t", "a", "x", "\"",
    ":", "\"">>
JsonClose ==
    <<"\"", "}">>

\* json.dumps of one character of a str (ensure_ascii, the characters modelled).
JsonEscapeChar(c) ==
    CASE c = "\"" -> <<"\\", "\"">>
      [] c = "\\" -> <<"\\", "\\">>
      [] c = "\n" -> <<"\\", "n">>
      [] c = "\r" -> <<"\\", "r">>
      [] c = "\t" -> <<"\\", "t">>
      [] c = "\f" -> <<"\\", "f">>
      [] OTHER -> <<c>>

\* The escapes of a str, concatenated (by halves, to keep the recursion shallow).
RECURSIVE JsonEscape(_)
JsonEscape(s) ==
    IF s = <<>> THEN <<>>
    ELSE IF Len(s) = 1 THEN JsonEscapeChar(s[1])
    ELSE LET h == Len(s) \div 2
         IN  JsonEscape(SubSeq(s, 1, h)) \o JsonEscape(SubSeq(s, h + 1, Len(s)))

\* json.dumps({"mermaid_syntax": s}, separators=(',', ':'))
JsonDumps(s) == JsonOpen \o JsonEscape(s) \o JsonClose

convertToJson_nostrip(code) ==
    LET lines == PySplitLines(code)
        mermaid_lines == [i \in 1..Len(lines) |-> PyStrip(lines[i])]
    IN  JsonDumps(PyJoinNewline(mermaid_lines))

convertToJson(code) ==
    LET lines == PySplitLines(PyStrip(code))
        mermaid_lines == [i \in 1..Len(lines) |-> PyStrip(lines[i])]
        joined_mermaid == PyJoinNewline(mermaid_lines)
    IN  JsonDumps(joined_mermaid)

---------------------------------------------------------------------------
(* The closures of receive_diagram in src/fetch_req_diagramType.py.        *)

MERMAID_TYPE_MAP ==
    (H_flowchart :> "Flowchart") @@ (H_graph :> "Flowchart") @@
    (K_sequence :> "Sequence") @@ (H_sequencediagram :> "Sequence") @@
    (K_sequenceDiagram :> "Sequence") @@
    (K_class :> "Class") @@ (H_classdiagram :> "Class") @@
    (K_classDiagram :> "Class")

\* re.sub(r'^```[a-zA-Z]*\n?', '', s)
StripOpeningFence(s) ==
    IF ~StartsWith(s, <<BQ, BQ, BQ>>) THEN s
    ELSE LET stop == {i \in 4..Len(s) : s[i] \notin Letters}
             k == IF stop = {} THEN Len(s) + 1 ELSE SetMin(stop)
             n == IF k <= Len(s) /\ s[k] = "\n" THEN k + 1 ELSE k
         IN  SubSeq(s, n, Len(s))

\* re.sub(r'\n?```$', '', s): $ matches at the end and before a final newline
StripClosingFence(s) ==
    LET body == IF EndsWith(s, <<"\n">>) THEN SubSeq(s, 1, Len(s) - 1) ELSE s
        rest == SubSeq(s, Len(body) + 1, Len(s))
    IN  IF ~EndsWith(body, <<BQ, BQ, BQ>>) THEN s
        ELSE IF EndsWith(body, <<"\n", BQ, BQ, BQ>>)
        THEN SubSeq(body, 1, Len(body) - 4) \o rest
        ELSE SubSeq(body, 1, Len(body) - 3) \o rest

\* Defined at lines 162-167; its one call (line 194) is commented out.
sanitize_candidate(candidate) ==
    PyStrip(StripClosingFence(StripOpeningFence(PyStrip(candidate))))

ResolveDiagramType_nolower(diagram_type) ==
    LET lookup_key == PyStrip(diagram_type)
    IN  IF lookup_key \notin DOMAIN MERMAID_TYPE_MAP
        THEN Raised(HTTPException(400, <<"Unsupported diagram type: ">> \o diagram_type))
        ELSE Returned(MERMAID_TYPE_MAP[lookup_key])

ResolveDiagramType_default(diagram_type) ==
    LET normalized_type == PyStrip(diagram_type)
        lookup_key == PyLower(normalized_type)
    IN  IF lookup_key \notin DOMAIN MERMAID_TYPE_MAP
        THEN Returned("Flowchart")
        ELSE Returned(MERMAID_TYPE_MAP[lookup_key])

\* generate_mermaid_with_gemini, lines 172-178
ResolveDiagramType(diagram_type) ==
    LET normalized_type == PyStrip(diagram_type)
        lookup_key == PyLower(normalized_type)
    IN  IF lookup_key \notin DOMAIN MERMAID_TYPE_MAP
        THEN Raised(HTTPException(400, <<"Unsupported diagram type: ">> \o diagram_type))
        ELSE Returned(MERMAID_TYPE_MAP[lookup_key])

ValidHeader(first_line) ==
    \/ StartsWith(first_line, H_graph)
    \/ StartsWith(first_line, H_flowchart)
    \/ StartsWith(first_line, H_sequencediagram)
    \/ StartsWith(first_line, H_classdiagram)

\* generate_mermaid_with_gemini, lines 190-202, on response.text
CheckResponseText(t) ==
    IF t = <<>>
    THEN Raised(HTTPException(502, <<"Gemini API returned empty response">>))
    ELSE LET first_line == PyLower(PyStrip(PySplitLines(t)[1]))
         IN  IF ~ValidHeader(first_line)
             THEN Raised(HTTPException(502,
                      <<"Gemini API did not return valid Mermaid syntax">>))
             ELSE Returned(t)

\* generate_mermaid_with_gemini, lines 205-209: every exception of the try
\* block, the two HTTPExceptions raised inside it included, is wrapped.
InnerExcept(exc) == HTTPException(502, <<"Gemini API error: ">> \o PyStrExc(exc))

\* receive_diagram, lines 238-245: the handler's except clauses.
OuterExcept_all500(exc) ==
    [kind |-> "error", status |-> 500, detail |-> <<"Unexpected error occurred">>]

OuterExcept(exc) ==
    IF exc.type = "HTTPException"
    THEN [kind |-> "error", status |-> exc.status, detail |-> exc.detail]
    ELSE IF exc.type = "ValueError"
    THEN [kind |-> "error", status |-> 502, detail |-> PyStrExc(exc)]
    ELSE [kind |-> "error", status |-> 500, detail |-> <<"Unexpected error occurred">>]

\* python_fastapi receive_diagram, lines 95-96: print, then fall off the end
\* of the function; FastAPI answers 200 with the body null.
StaticExcept(exc) == [kind |-> "null", status |-> 200, detail |-> <<>>]

---------------------------------------------------------------------------
(* The environment: request bodies, the prompt file, the generation model. *)

Req_A ==
    <<"a", "l", "e", "r", "t", " ", "t", "h", "e", " ", "d", "r", "i", "v", "e", "r">>
Req_B ==
    <<"l", "o", "c", "k", " ", "t", "h", "e", " ", "d", "o", "o", "r", "s">>
T_pie ==
    <<"p", "i", "e">>
Out_graph ==
    <<"g", "r", "a", "p", "h", " ", "T", "D", "\n", "A", "-", "-", ">", "B">>
Out_leading_blank ==
    <<"\n", "g", "r", "a", "p", "h", " ", "T", "D", "\n", "A", "-", "-", ">", "B">>
Out_indented ==
    <<" ", " ", "F", "l", "o", "w", "c", "h", "a", "r", "t", " ", "L", "R", "\r", "\n", " ",
    " ", "A", "-", "-", ">", "B", "\n">>
Out_sequence ==
    <<"s", "e", "q", "u", "e", "n", "c", "e", "D", "i", "a", "g", "r", "a", "m", "\n", "A",
    "-", ">", ">", "B", ":", " ", "h", "i">>
Out_class ==
    <<"c", "l", "a", "s", "s", "D", "i", "a", "g", "r", "a", "m", "\n", "c", "l", "a", "s",
    "s", " ", "A">>
Out_prose ==
    <<"I", " ", "c", "a", "n", "n", "o", "t", " ", "h", "e", "l", "p", " ", "w", "i", "t", "h",
    " ", "t", "h", "a", "t", ".">>
Out_prose_then_header ==
    <<"H", "e", "r", "e", ":", "\n", "g", "r", "a", "p", "h", " ", "T", "D">>
Out_blank ==
    <<" ", "\n">>

Out_fenced ==
    <<BQ, BQ, BQ, "m", "e", "r", "m", "a", "i", "d", "\n">> \o Out_graph \o
    <<"\n", BQ, BQ, BQ>>

Requirements == {Req_A, Req_B}

DiagramTypes == {H_flowchart, T_pie}

\* The contents of prompt_Gemini_Test.txt, read at lines 182-183.
Template == <<"<prompt_Gemini_Test.txt>">>

RawOutputs ==
    {Out_graph, Out_leading_blank, Out_indented, Out_sequence, Out_class,
     Out_prose, Out_prose_then_header, Out_blank, Out_fenced, <<" ">>, <<>>}

\* What model.generate_content(...) followed by response.text can do.
GenerationOutcomes ==
    {Returned(t) : t \in RawOutputs} \cup
    {Raised(OtherError("ResourceExhausted", <<"quota exceeded">>))}

\* What open(...).read() can do.
PromptFileOutcomes ==
    {Returned(Template),
     Raised(OtherError("FileNotFoundError", <<"No such file or directory">>))}

---------------------------------------------------------------------------
(* State.                                                                  *)

Requests == 1..NumRequests

Apps == {"api", "static"}

None == <<"<None>">>

\* The handler's frame: the parameters of generate_mermaid_with_gemini, its
\* full_prompt and response.text, and mermaid and result of receive_diagram.
NoLocals ==
    [requirement |-> None, diagram_type |-> None, gemini_diagram_type |-> None,
     full_prompt |-> None, text |-> None, mermaid |-> None,
     result |-> [type |-> "", code |-> None]]

NoBody ==
    [status |-> "", requirement |-> None, diagram_type |-> None,
     Detected_Diagram_Type |-> "", Clean_Mermaid_Code |-> None,
     Json_Mermaid_Code |-> None]

Pending == [kind |-> "pending", status |-> 0, detail |-> <<>>, body |-> NoBody]

NoCall == [fn |-> "none", arg |-> <<>>, word |-> <<>>]

NotApplied == [kind |-> "none", status |-> 0, detail |-> <<>>, value |-> <<>>]

InFlight(r) == pc[r] \notin {"new", "done"}

\* Where a handler coroutine hands control back to the event loop.  The
\* handlers are `async def`, but generate_mermaid_with_gemini awaits nothing
\* (model.generate_content and open are blocking calls), so the one `await`
\* of line 212 never suspends; the python_fastapi handler has no await.
SuspendsAt_async_invoke(stage) == stage = "invoke"

SuspendsAt(stage) == FALSE

Yield(stage, r) == IF SuspendsAt(stage) THEN 0 ELSE r

InitHandler ==
    /\ app \in Apps
    /\ fetched_data = [requirement |-> None, diagram_type |-> None]
    /\ request = [r \in Requests |-> [requirement |-> None, diagram_type |-> None]]
    /\ pc = [r \in Requests |-> "new"]
    /\ running = 0
    /\ overlap = [r \in Requests |-> FALSE]
    /\ local = [r \in Requests |-> NoLocals]
    /\ sent = [r \in Requests |-> <<>>]
    /\ failed_at = [r \in Requests |-> "none"]
    /\ response = [r \in Requests |-> Pending]

Init == InitHandler /\ fn_in = NoCall /\ fn_out = NotApplied

---------------------------------------------------------------------------
(* The event loop and the handler, one action per stage.                   *)

\* The handler of r ends with an exception at `stage`; its frame is gone.
Fail(r, stage, exc) ==
    /\ response' = [response EXCEPT ![r] =
           [body |-> NoBody] @@
           (IF app = "api" THEN OuterExcept(exc) ELSE StaticExcept(exc))]
    /\ failed_at' = [failed_at EXCEPT ![r] = stage]
    /\ pc' = [pc EXCEPT ![r] = "done"]
    /\ local' = [local EXCEPT ![r] = NoLocals]
    /\ running' = 0

\* The handler of r moves on to stage `next` with the frame `frame`.
Advance(r, stage, next, frame) ==
    /\ pc' = [pc EXCEPT ![r] = next]
    /\ local' = [local EXCEPT ![r] = frame]
    /\ running' = Yield(stage, r)
    /\ UNCHANGED <<response, failed_at>>

\* A request arrives: its body is parsed and its task is queued.
Arrive(r, requirement, diagram_type) ==
    /\ pc[r] = "new"
    /\ \A q \in Requests : q < r => pc[q] # "new"
    /\ request' = [request EXCEPT ![r] =
           [requirement |-> requirement, diagram_type |-> diagram_type]]
    /\ pc' = [pc EXCEPT ![r] = "store"]
    /\ UNCHANGED <<app, fetched_data, running, overlap, local, sent, failed_at,
                   response, fn_in, fn_out>>

\* The idle event loop starts, or resumes, the coroutine of r.
Dispatch(r) ==
    /\ running = 0
    /\ InFlight(r)
    /\ running' = r
    /\ overlap' = IF pc[r] = "store"
                  THEN [overlap EXCEPT ![r] = \E q \in Requests \ {r} : InFlight(q)]
                  ELSE overlap
    /\ UNCHANGED <<app, fetched_data, request, pc, local, sent, failed_at,
                   response, fn_in, fn_out>>

\* Lines 92-94 (python_fastapi: 61-62).
StoreInputs(r) ==
    /\ running = r
    /\ pc[r] = "store"
    /\ fetched_data' = [requirement |-> request[r].requirement,
                        diagram_type |-> request[r].diagram_type]
    /\ Advance(r, "store", IF app = "api" THEN "resolve" ELSE "clean", local[r])
    /\ UNCHANGED <<app, request, overlap, sent, fn_in, fn_out>>

\* Lines 212-215 and 172-178: the call and the type lookup.
Resolve(r) ==
    /\ running = r
    /\ pc[r] = "resolve"
    /\ LET res == ResolveDiagramType(fetched_data.diagram_type)
       IN  IF res.raised
           THEN Fail(r, "resolve", res.exc)
           ELSE Advance(r, "resolve", "prompt",
                    [local[r] EXCEPT !.requirement = fetched_data.requirement,
                                     !.diagram_type = fetched_data.diagram_type,
                                     !.gemini_diagram_type = <<res.value>>])
    /\ UNCHANGED <<app, fetched_data, request, overlap, sent, fn_in, fn_out>>

\* Lines 182-183: the prompt is the contents of the prompt file.
ReadPrompt(r) ==
    /\ running = r
    /\ pc[r] = "prompt"
    /\ \E file \in PromptFileOutcomes :
         IF file.raised
         THEN Fail(r, "prompt", file.exc)
         ELSE Advance(r, "prompt", "invoke",
                  [local[r] EXCEPT !.full_prompt = file.value])
    /\ UNCHANGED <<app, fetched_data, request, overlap, sent, fn_in, fn_out>>

\* Line 188: one call of the generation model.
Invoke(r) ==
    /\ running = r
    /\ pc[r] = "invoke"
    /\ sent' = [sent EXCEPT ![r] = Append(@, local[r].full_prompt)]
    /\ \E out \in GenerationOutcomes :
         IF out.raised
         THEN Fail(r, "invoke", InnerExcept(out.exc))
         ELSE Advance(r, "invoke", "validate", [local[r] EXCEPT !.text = out.value])
    /\ UNCHANGED <<app, fetched_data, request, overlap, fn_in, fn_out>>

\* Lines 190-202 and 218.
Validate(r) ==
    /\ running = r
    /\ pc[r] = "validate"
    /\ LET res == CheckResponseText(local[r].text)
       IN  IF res.raised
           THEN Fail(r, "validate", InnerExcept(res.exc))
           ELSE Advance(r, "validate", "clean",
                    [local[r] EXCEPT !.mermaid = res.value])
    /\ UNCHANGED <<app, fetched_data, request, overlap, sent, fn_in, fn_out>>

\* Line 223 (python_fastapi: 71-82, on the literal).
Clean(r) ==
    /\ running = r
    /\ pc[r] = "clean"
    /\ LET m == IF app = "api" THEN local[r].mermaid ELSE StaticMermaid
           res == clean_mermaid_code(m)
       IN  IF res.raised
           THEN Fail(r, "clean", res.exc)
           ELSE Advance(r, "clean", "respond",
                    [local[r] EXCEPT !.mermaid = m, !.result = res.value])
    /\ UNCHANGED <<app, fetched_data, request, overlap, sent, fn_in, fn_out>>

\* Lines 225-234 (python_fastapi: 84-93, which serializes the raw literal).
Respond(r) ==
    /\ running = r
    /\ pc[r] = "respond"
    /\ LET jsonRes == convertToJson(IF app = "api" THEN local[r].result.code
                                    ELSE local[r].mermaid)
       IN  response' = [response EXCEPT ![r] =
               [kind |-> "success", status |-> 200, detail |-> <<>>,
                body |-> [status |-> "success",
                          requirement |-> fetched_data.requirement,
                          diagram_type |-> fetched_data.diagram_type,
                          Detected_Diagram_Type |-> local[r].result.type,
                          Clean_Mermaid_Code |-> local[r].result.code,
                          Json_Mermaid_Code |-> jsonRes]]]
    /\ pc' = [pc EXCEPT ![r] = "done"]
    /\ local' = [local EXCEPT ![r] = NoLocals]
    /\ running' = 0
    /\ UNCHANGED <<app, fetched_data, request, overlap, sent, failed_at,
                   fn_in, fn_out>>

Next ==
    \/ \E r \in Requests, q \in Requirements, d \in DiagramTypes : Arrive(r, q, d)
    \/ \E r \in Requests : Dispatch(r)
    \/ \E r \in Requests : StoreInputs(r)
    \/ \E r \in Requests : Resolve(r)
    \/ \E r \in Requests : ReadPrompt(r)
    \/ \E r \in Requests : Invoke(r)
    \/ \E r \in Requests : Validate(r)
    \/ \E r \in Requests : Clean(r)
    \/ \E r \in Requests : Respond(r)

Spec == Init /\ [][Next]_vars

---------------------------------------------------------------------------
(* The functions on their own: Init draws an argument, one action applies  *)
(* the function to it.                                                     *)

SeqsUpTo(S, n) == UNION {[1..k -> S] : k \in 0..n}

PadChars == {" ", "\t", "\n"}

Pads == SeqsUpTo(PadChars, MaxPad)

T_flow == <<"f", "l", "o", "w">>

T_graphs == <<"g", "r", "a", "p", "h", "s">>

T_sequence_diagram == K_sequence \o <<" ">> \o <<"d", "i", "a", "g", "r", "a", "m">>

\* The spellings section 4.1 accepts, and some it does not.
AcceptedWords ==
    {H_flowchart, H_graph, K_sequence, H_sequencediagram, K_class, H_classdiagram}

RejectedWords == {T_pie, <<>>, T_flow, T_graphs, T_sequence_diagram}

Casings == {"lower", "upper", "title", "camel"}

\* A lower-case word in another letter case; "camel" is sequenceDiagram's.
Cased(c, w) ==
    [i \in 1..Len(w) |->
        IF \/ c = "upper"
           \/ c = "title" /\ i = 1
           \/ c = "camel" /\ Len(w) > 7 /\ i = Len(w) - 6
        THEN UpperChar(w[i]) ELSE w[i]]

ResolveInputs ==
    {[fn |-> "resolve", arg |-> l \o Cased(c, w) \o r, word |-> w] :
        l \in Pads, r \in Pads, c \in Casings, w \in AcceptedWords \cup RejectedWords}

TextChars == {"a", " ", "\n", "\r", "\"", "\\"}

T_indented == <<"g", "r", "a", "p", "h", " ", "T", "D", "\n", " ", " ", "A", "-", "-", ">", "B">>

ConvertInputs ==
    {[fn |-> "convert", arg |-> x, word |-> <<>>] :
        x \in SeqsUpTo(TextChars, MaxLen) \cup {StaticMermaid, T_indented, Out_graph}}

InitFn ==
    /\ InitHandler
    /\ app = "api"
    /\ fn_in \in ResolveInputs \cup ConvertInputs
    /\ fn_out = NotApplied

\* The Resolver as the endpoint shows it: a kind, or the handler's answer.
ApplyResolve ==
    /\ fn_in.fn = "resolve"
    /\ fn_out = NotApplied
    /\ LET res == ResolveDiagramType(fn_in.arg)
       IN  fn_out' =
             IF res.raised
             THEN [value |-> <<>>] @@ OuterExcept(res.exc)
             ELSE [kind |-> "resolved", status |-> 0, detail |-> <<>>,
                   value |-> <<res.value>>]
    /\ UNCHANGED <<handler_vars, fn_in>>

ApplyConvertToJson ==
    /\ fn_in.fn = "convert"
    /\ fn_out = NotApplied
    /\ fn_out' = [kind |-> "json", status |-> 0, detail |-> <<>>,
                  value |-> convertToJson(fn_in.arg)]
    /\ UNCHANGED <<handler_vars, fn_in>>

NextFn == ApplyResolve \/ ApplyConvertToJson

SpecFn == InitFn /\ [][NextFn]_vars

---------------------------------------------------------------------------
(* The document-analysis endpoint: src/user_analysis/main.py.              *)
(* A file's bytes are a sequence of byte tokens; "<0xFF>" is a byte that   *)
(* is not valid UTF-8.                                                     *)

M_text_plain ==
    <<"t", "e", "x", "t", "/", "p", "l", "a", "i", "n">>
M_text_markdown ==
    <<"t", "e", "x", "t", "/", "m", "a", "r", "k", "d", "o", "w", "n">>
M_pdf ==
    <<"a", "p", "p", "l", "i", "c", "a", "t", "i", "o", "n", "/", "p", "d", "f">>
M_docx ==
    <<"a", "p", "p", "l", "i", "c", "a", "t", "i", "o", "n", "/", "v", "n", "d", ".", "o", "p",
    "e", "n", "x", "m", "l", "f", "o", "r", "m", "a", "t", "s", "-", "o", "f", "f", "i", "c",
    "e", "d", "o", "c", "u", "m", "e", "n", "t", ".", "w", "o", "r", "d", "p", "r", "o", "c",
    "e", "s", "s", "i", "n", "g", "m", "l", ".", "d", "o", "c", "u", "m", "e", "n", "t">>
M_image_prefix ==
    <<"i", "m", "a", "g", "e", "/">>
X_txt ==
    <<".", "t", "x", "t">>
X_md ==
    <<".", "m", "d">>
X_pdf ==
    <<".", "p", "d", "f">>
X_docx ==
    <<".", "d", "o", "c", "x">>
X_png ==
    <<".", "p", "n", "g">>
X_jpg ==
    <<".", "j", "p", "g">>
X_jpeg ==
    <<".", "j", "p", "e", "g">>

\* bytes.decode('utf-8', errors='ignore'): undecodable bytes are dropped.
DecodeUtf8Ignore(file_content) == SelectSeq(file_content, LAMBDA b : b # "<0xFF>")

\* str.endswith(tuple)
EndsWithAny(s, suffixes) == \E x \in suffixes : EndsWith(s, x)

AttributeError(msg) == OtherError("AttributeError", msg)

\* Lines 36-66: the extraction dispatch.  `parsed` is what the extraction
\* library of the chosen branch does with the bytes: it returns a text or
\* raises.  mime_type is None when the part came without a Content-Type;
\* the first three tests compare it, the fourth calls its startswith.
ExtractText(file) ==
    LET filename == PyLower(file.filename)
        mime_type == file.content_type
        guarded == IF file.parsed.raised THEN None ELSE file.parsed.value
    IN  IF \/ mime_type \in {M_text_plain, M_text_markdown}
           \/ EndsWithAny(filename, {X_txt, X_md})
        THEN Returned(DecodeUtf8Ignore(file.content))
        ELSE IF mime_type = M_pdf \/ EndsWith(filename, X_pdf)
        THEN Returned(guarded)
        ELSE IF mime_type = M_docx \/ EndsWith(filename, X_docx)
        THEN Returned(guarded)
        ELSE IF mime_type = None
        THEN Raised(AttributeError(
                 <<"'NoneType' object has no attribute 'startswith'">>))
        ELSE IF \/ StartsWith(mime_type, M_image_prefix)
                \/ EndsWithAny(filename, {X_png, X_jpg, X_jpeg})
        THEN Returned(guarded)
        ELSE Returned(None)

\* The parameter `file` when the form carries no file (its default, None).
NoFile ==
    [uploaded |-> FALSE, filename |-> None, content_type |-> None,
     content |-> <<>>, parsed |-> Returned(None)]

\* Lines 24-95 for one request.
analyze_input(user_input, file) ==
    LET extracted == IF file.uploaded THEN ExtractText(file) ELSE Returned(None)
    IN  IF extracted.raised THEN extracted
        ELSE Returned(
               [user_input |-> user_input,
                file_uploaded |-> file.uploaded,
                file_name |-> IF file.uploaded THEN file.filename ELSE None,
                file_size |-> IF file.uploaded THEN Len(file.content) ELSE 0,
                extracted_text |-> extracted.value,
                analysis |-> <<"MCP AI analysis result would go here">>])

\* What the client gets: the JSONResponse of line 95, or the framework's
\* answer to an exception that left the handler.
AnalyzeAnswer(outcome) ==
    IF outcome.raised
    THEN [kind |-> "error", status |-> 500,
          detail |-> <<"Internal Server Error">>, value |-> outcome.exc]
    ELSE [kind |-> "json", status |-> 200, detail |-> <<>>,
          value |-> outcome.value]

\* Uploads of the model.
F_notes_txt ==
    <<"n", "o", "t", "e", "s", ".", "t", "x", "t">>
F_readme_md ==
    <<"R", "E", "A", "D", "M", "E", ".", "M", "D">>
F_report_pdf ==
    <<"r", "e", "p", "o", "r", "t", ".", "p", "d", "f">>
F_spec_docx ==
    <<"s", "p", "e", "c", ".", "d", "o", "c", "x">>
F_photo_png ==
    <<"p", "h", "o", "t", "o", ".", "P", "N", "G">>
F_scan_jpeg ==
    <<"s", "c", "a", "n", ".", "j", "p", "e", "g">>
F_data_bin ==
    <<"d", "a", "t", "a", ".", "b", "i", "n">>
M_image_png ==
    <<"i", "m", "a", "g", "e", "/", "p", "n", "g">>
M_octet_stream ==
    <<"a", "p", "p", "l", "i", "c", "a", "t", "i", "o", "n", "/", "o", "c", "t", "e", "t", "-",
    "s", "t", "r", "e", "a", "m">>

FileNames ==
    {F_notes_txt, F_readme_md, F_report_pdf, F_spec_docx, F_photo_png,
     F_scan_jpeg, F_data_bin, <<>>}

\* Declared media types; None is a part without a Content-Type header.
ContentTypes ==
    {None, <<>>, M_text_plain, M_text_markdown, M_pdf, M_docx, M_image_png,
     M_octet_stream}

FileBytes == {"a", "<0xFF>"}

\* What PyPDF2, python-docx or pytesseract does with a file's bytes.
LibraryOutcomes ==
    {Raised(OtherError("Exception", <<"cannot read the document">>)),
     Returned(<<>>), Returned(<<"a">>)}

Uploads ==
    [uploaded : {TRUE}, filename : FileNames, content_type : ContentTypes,
     content : SeqsUpTo(FileBytes, MaxLen), parsed : LibraryOutcomes]

AnalyzeInputs ==
    {[fn |-> "analyze", user_input |-> Req_A, file |-> f] :
        f \in Uploads \cup {NoFile}}

InitAnalyze ==
    /\ app = "analysis"
    /\ fetched_data = [requirement |-> None, diagram_type |-> None]
    /\ request = [r \in Requests |-> [requirement |-> None, diagram_type |-> None]]
    /\ pc = [r \in Requests |-> "new"]
    /\ running = 0
    /\ overlap = [r \in Requests |-> FALSE]
    /\ local = [r \in Requests |-> NoLocals]
    /\ sent = [r \in Requests |-> <<>>]
    /\ failed_at = [r \in Requests |-> "none"]
    /\ response = [r \in Requests |-> Pending]
    /\ fn_in \in AnalyzeInputs
    /\ fn_out = NotApplied

\* POST /analyze, the whole handler: it awaits only file.read().
Analyze ==
    /\ fn_in.fn = "analyze"
    /\ fn_out.kind = "none"
    /\ fn_out' = AnalyzeAnswer(analyze_input(fn_in.user_input, fn_in.file))
    /\ UNCHANGED <<handler_vars, fn_in>>

NextAnalyze == Analyze

SpecAnalyze == InitAnalyze /\ [][NextAnalyze]_vars

---------------------------------------------------------------------------
(* Vocabulary of the properties.                                           *)

\* The four recognized headers and the type each one gives.
HeaderTable ==
    <<<<H_graph, "flowchart">>, <<H_flowchart, "flowchart">>,
      <<H_sequencediagram, "sequenceDiagram">>, <<H_classdiagram, "classDiagram">>>>

HasHeader(line) == \E i \in 1..Len(HeaderTable) : StartsWith(line, HeaderTable[i][1])

TypeOfHeader(line) ==
    HeaderTable[CHOOSE i \in 1..Len(HeaderTable) : StartsWith(line, HeaderTable[i][1])][2]

\* The first line of t that is not blank, trimmed and lower-cased.
FirstNonBlankLine(t) ==
    LET lines == PySplitLines(t)
        full == {i \in 1..Len(lines) : PyStrip(lines[i]) # <<>>}
    IN  IF full = {} THEN <<>> ELSE PyLower(PyStrip(lines[SetMin(full)]))

Mentions(detail, msg) == \E i \in 1..Len(detail) : detail[i] = msg

\* The cause an error response reports.
ReportedCause(resp) ==
    IF Mentions(resp.detail, "Gemini API returned empty response")
    THEN "EmptyGenerationResult"
    ELSE IF Mentions(resp.detail, "Gemini API did not return valid Mermaid syntax")
    THEN "InvalidDiagramSyntax"
    ELSE IF Mentions(resp.detail, "Unsupported diagram type: ")
    THEN "UnsupportedDiagramKind"
    ELSE IF Mentions(resp.detail, "Gemini API error: ")
    THEN "GenerationFailed"
    ELSE "InternalError"

\* r's handler leaves `stage` in this step.
Leaves(r, stage) == pc[r] = stage /\ pc'[r] # stage

---------------------------------------------------------------------------
(* C1: each success response echoes the requirement and diagram_type of    *)
(* its own request, whatever other requests are in flight.                 *)

C1_ResponseEchoesOwnRequest ==
    \A r \in Requests :
        response[r].kind = "success" =>
            /\ response[r].body.requirement = request[r].requirement
            /\ response[r].body.diagram_type = request[r].diagram_type

\* Two requests with different bodies, in flight together, both answered.
C1_Witness ==
    \E r, q \in Requests :
        /\ r # q
        /\ overlap[r]
        /\ response[r].kind = "success" /\ response[q].kind = "success"
        /\ request[r].requirement # request[q].requirement

---------------------------------------------------------------------------
(* C2: the validator accepts a non-empty output exactly when its first     *)
(* non-blank line, trimmed and lower-cased, starts with a recognized       *)
(* header; every other output ends the request with a 502 invalid-syntax   *)
(* error.  (The claim as stated; the code looks at the first line.)        *)

C2_ValidatorUsesFirstNonBlankLine ==
    [][\A r \in Requests :
          (Leaves(r, "validate") /\ local[r].text # <<>>) =>
              IF HasHeader(FirstNonBlankLine(local[r].text))
              THEN pc'[r] = "clean"
              ELSE /\ pc'[r] = "done"
                   /\ response'[r].status = 502
                   /\ ReportedCause(response'[r]) = "InvalidDiagramSyntax"]_vars

---------------------------------------------------------------------------
(* C3: in every success response the first line of Clean Mermaid Code,     *)
(* trimmed and lower-cased, starts with a recognized header, and Detected  *)
(* Diagram Type is the type of that header, whatever type was requested.   *)

C3_SuccessHasHeaderAndItsType ==
    \A r \in Requests :
        response[r].kind = "success" =>
            LET first == PyLower(PyStrip(
                             PySplitNewline(response[r].body.Clean_Mermaid_Code)[1]))
            IN  /\ HasHeader(first)
                /\ response[r].body.Detected_Diagram_Type = TypeOfHeader(first)

\* A sequence diagram answered to a request that asked for a flowchart.
C3_Witness ==
    \E r \in Requests :
        /\ response[r].kind = "success"
        /\ request[r].diagram_type = H_flowchart
        /\ response[r].body.Detected_Diagram_Type = "sequenceDiagram"

---------------------------------------------------------------------------
(* C4: the Resolver trims and lower-cases its argument and looks it up:    *)
(* flowchart/graph give Flowchart, sequence/sequencediagram Sequence,      *)
(* class/classdiagram Class, in any letter case and with any surrounding   *)
(* whitespace; every other string, the empty one included, is answered     *)
(* 400 unsupported diagram kind and resolves to no kind.                   *)

ExpectedKind(w) ==
    CASE w \in {H_flowchart, H_graph} -> "Flowchart"
      [] w \in {K_sequence, H_sequencediagram} -> "Sequence"
      [] w \in {K_class, H_classdiagram} -> "Class"
      [] OTHER -> "none"

C4_ResolverTable ==
    (fn_in.fn = "resolve" /\ fn_out # NotApplied) =>
        IF fn_in.word \in AcceptedWords
        THEN /\ fn_out.kind = "resolved"
             /\ fn_out.value = <<ExpectedKind(fn_in.word)>>
        ELSE /\ fn_out.kind = "error"
             /\ fn_out.status = 400
             /\ ReportedCause(fn_out) = "UnsupportedDiagramKind"
             /\ fn_out.value = <<>>

\* "\tsequenceDiagram " resolved to Sequence.
C4_Witness ==
    /\ fn_in.arg = <<"\t">> \o K_sequenceDiagram \o <<" ">>
    /\ fn_out.value = <<"Sequence">>

---------------------------------------------------------------------------
(* C5: a request that does not succeed is answered by an error with a      *)
(* detail message and the status of the stage that failed: 400 for an      *)
(* unsupported diagram kind, 502 for an error of the generation call, an   *)
(* empty or invalid output or a failed classification, 500 for any other   *)
(* error; never a success-shaped or null answer.                           *)

ExpectedStatus(stage) ==
    CASE stage = "resolve" -> 400
      [] stage \in {"invoke", "validate", "clean"} -> 502
      [] OTHER -> 500

---------------------------------------------------------------------------
(* C6: an empty or whitespace-only output of the generation call ends the  *)
(* request with a 502 whose reported cause is the empty-result cause.      *)
(* (The claim as stated; the code tests for the empty string only.)        *)

C6_BlankOutputReportsEmptyResult ==
    [][\A r \in Requests :
          (Leaves(r, "validate") /\ PyStrip(local[r].text) = <<>>) =>
              /\ pc'[r] = "done"
              /\ response'[r].status = 502
              /\ ReportedCause(response'[r]) = "EmptyGenerationResult"]_vars

---------------------------------------------------------------------------
(* C7: decoding convertToJson(x) and reading mermaid_syntax gives the      *)
(* trimmed lines of x joined by single newlines, the JSON has no           *)
(* whitespace between its tokens, and the normalized text serializes to    *)
(* the same JSON.                                                          *)

JsonWS == {" ", "\t", "\n", "\r"}

JsonUnescapeChar(c) ==
    CASE c = "n" -> "\n"
      [] c = "r" -> "\r"
      [] c = "t" -> "\t"
      [] c = "f" -> "\f"
      [] OTHER -> c

JsonEscapable == {"\"", "\\", "/", "n", "r", "t", "f"}

\* The first position from i on that holds no JSON whitespace.
JsonSkipWS(j, i) ==
    LET non == {k \in i..Len(j) : j[k] \notin JsonWS}
    IN  IF non = {} THEN Len(j) + 1 ELSE SetMin(non)

\* Position k of j, inside the string that opens at position i, follows an
\* odd run of backslashes.
JsonEscaped(j, i, k) ==
    LET stop == {m \in i..(k - 1) : j[m] # "\\"}
        run == IF stop = {} THEN k - 1 - i ELSE k - 1 - SetMax(stop)
    IN  run % 2 = 1

\* The JSON string that opens with the quote at position i.
JsonString(j, i) ==
    LET close == {k \in (i + 1)..Len(j) : j[k] = "\"" /\ ~JsonEscaped(j, i, k)}
    IN  IF i > Len(j) \/ j[i] # "\"" \/ close = {}
        THEN [ok |-> FALSE, value |-> <<>>, next |-> 0]
        ELSE LET e == SetMin(close)
                 at == [k \in 1..(e - i - 1) |-> i + k]
                 Kept(k) == JsonEscaped(j, i, k) \/ j[k] # "\\"
                 kept == SelectSeq(at, Kept)
                 Good(k) == IF JsonEscaped(j, i, k) THEN j[k] \in JsonEscapable
                            ELSE j[k] \notin {"\n", "\r", "\t", "\f"}
             IN  [ok |-> \A k \in (i + 1)..(e - 1) : Good(k),
                  value |-> [n \in 1..Len(kept) |->
                                IF JsonEscaped(j, i, kept[n])
                                THEN JsonUnescapeChar(j[kept[n]]) ELSE j[kept[n]]],
                  next |-> e + 1]

\* json.loads of an object with one string member.
JsonLoads(j) ==
    LET a == JsonSkipWS(j, 1)
        b == JsonSkipWS(j, a + 1)
        key == JsonString(j, b)
        c == JsonSkipWS(j, key.next)
        d == JsonSkipWS(j, c + 1)
        val == JsonString(j, d)
        e == JsonSkipWS(j, val.next)
        f == JsonSkipWS(j, e + 1)
    IN  IF /\ a <= Len(j) /\ j[a] = "{"
           /\ key.ok
           /\ c <= Len(j) /\ j[c] = ":"
           /\ val.ok
           /\ e <= Len(j) /\ j[e] = "}"
           /\ f = Len(j) + 1
        THEN [ok |-> TRUE, key |-> key.value, value |-> val.value,
              compact |-> a = 1 /\ b = 2 /\ c = key.next /\ d = c + 1
                          /\ e = val.next /\ e = Len(j)]
        ELSE [ok |-> FALSE, key |-> <<>>, value |-> <<>>, compact |-> FALSE]

MermaidSyntaxKey ==
    <<"m", "e", "r", "m", "a", "i", "d", "_", "s", "y", "n", "t", "a", "x">>

\* The lines of x, each trimmed, joined by single newlines.
NormalizeLines(x) ==
    LET lines == PySplitLines(x)
    IN  PyJoinNewline([i \in 1..Len(lines) |-> PyStrip(lines[i])])

\* The same, of x without the whitespace at its two ends.
NormalizeBlock(x) == NormalizeLines(PyStrip(x))

\* The claim as stated: normalize(x) is NormalizeLines(x).
C7_RoundTripOfLines ==
    (fn_in.fn = "convert" /\ fn_out # NotApplied) =>
        LET decoded == JsonLoads(fn_out.value)
        IN  /\ decoded.ok
            /\ decoded.key = MermaidSyntaxKey
            /\ decoded.value = NormalizeLines(fn_in.arg)
            /\ decoded.compact
            /\ convertToJson(NormalizeLines(fn_in.arg)) = fn_out.value

\* C7, amended: normalize(x) first trims the whitespace at the two ends of
\* x, then trims each line and joins the lines by single newlines.
C7_RoundTripOfBlock ==
    (fn_in.fn = "convert" /\ fn_out # NotApplied) =>
        LET decoded == JsonLoads(fn_out.value)
        IN  /\ decoded.ok
            /\ decoded.key = MermaidSyntaxKey
            /\ decoded.value = NormalizeBlock(fn_in.arg)
            /\ decoded.compact
            /\ convertToJson(NormalizeBlock(fn_in.arg)) = fn_out.value

\* "graph TD\n  A-->B" serialized; it decodes to "graph TD\nA-->B".
C7_Witness ==
    /\ fn_in.fn = "convert"
    /\ fn_in.arg = T_indented
    /\ fn_out # NotApplied
    /\ JsonLoads(fn_out.value).value = Out_graph

---------------------------------------------------------------------------
(* C8: a model output that is a valid diagram body between one opening     *)
(* fence line (with or without a language tag) and one closing fence line  *)
(* is classified by the body's header, and the code returned is the body   *)
(* with the two fence lines removed.  (The claim as stated; the code       *)
(* never calls sanitize_candidate and validates the fenced text.)          *)

Fence == <<BQ, BQ, BQ>>

\* t without its first and its last line.
FencedBody(t) ==
    LET lines == PySplitNewline(t)
    IN  PyJoinNewline(SubSeq(lines, 2, Len(lines) - 1))

\* t is an opening fence line, a body that starts with a header, and a
\* closing fence line.
IsFencedDiagram(t) ==
    LET lines == PySplitNewline(t)
    IN  /\ Len(lines) >= 3
        /\ StartsWith(lines[1], Fence)
        /\ \A i \in 4..Len(lines[1]) : lines[1][i] \in Letters
        /\ lines[Len(lines)] = Fence
        /\ HasHeader(PyLower(PyStrip(lines[2])))

C8_FencedOutputIsClassified ==
    [][\A r \in Requests :
          IsFencedDiagram(local[r].text) =>
              /\ Leaves(r, "validate") => pc'[r] = "clean"
              /\ Leaves(r, "clean") =>
                     /\ pc'[r] = "respond"
                     /\ local'[r].result =
                            [type |-> TypeOfHeader(PyLower(PyStrip(
                                          PySplitNewline(local[r].text)[2]))),
                             code |-> FencedBody(local[r].text)]]_vars

---------------------------------------------------------------------------
(* C9: the prompt sent for a request is the template with the request's    *)
(* requirement text substituted, so two requests with the same diagram     *)
(* type and different requirement texts are sent different prompts.  (The  *)
(* claim as stated; the code sends the template file as it is.)            *)

C9_PromptDependsOnRequirement ==
    \A r, q \in Requests :
        (/\ sent[r] # <<>> /\ sent[q] # <<>>
         /\ request[r].diagram_type = request[q].diagram_type
         /\ request[r].requirement # request[q].requirement)
        => sent[r][1] # sent[q][1]

---------------------------------------------------------------------------
(* C10: within a request the stages run in the order Resolver,             *)
(* Synthesizer, Invoker, Validator, Classifier, Serializer; the            *)
(* generation call is made at most once per request, only by the Invoker   *)
(* stage after the diagram type resolved, and never for a request whose    *)
(* diagram type is unsupported.                                            *)

StageOrder ==
    <<"new", "store", "resolve", "prompt", "invoke", "validate", "clean",
      "respond", "done">>

StageRank(stage) == CHOOSE i \in 1..Len(StageOrder) : StageOrder[i] = stage

\* The spellings of section 4.1 in any letter case, with any padding.
SupportedSpellings ==
    {l \o Cased(c, w) \o r : l \in Pads, r \in Pads, c \in Casings, w \in AcceptedWords}

C10_StagesInOrderOneCall ==
    [][\A r \in Requests :
          /\ pc'[r] # pc[r] => StageRank(pc'[r]) > StageRank(pc[r])
          /\ Len(sent'[r]) <= 1
          /\ sent'[r] # sent[r] =>
                 /\ pc[r] = "invoke"
                 /\ request[r].diagram_type \in SupportedSpellings]_vars

\* One request rejected without a call, one called once and not retried
\* after its output failed validation.
C10_Witness ==
    \E r, q \in Requests :
        /\ pc[r] = "done" /\ failed_at[r] = "resolve" /\ Len(sent[r]) = 0
        /\ pc[q] = "done" /\ failed_at[q] = "validate" /\ Len(sent[q]) = 1

---------------------------------------------------------------------------
(* C11: in analyze_input, for every uploaded file, whatever its file name  *)
(* and declared media type (a missing media type and an unrecognized       *)
(* format included), the request completes with a normal response, and     *)
(* when no text could be extracted from the file its extracted_text is     *)
(* null.  (The claim as stated; the code calls startswith on a missing     *)
(* media type.)                                                            *)

\* The formats the dispatch knows, by declared media type or by file name.
RecognizedFormat(file) ==
    LET filename == PyLower(file.filename)
        mime_type == file.content_type
    IN  \/ mime_type \in {M_text_plain, M_text_markdown, M_pdf, M_docx}
        \/ mime_type # None /\ StartsWith(mime_type, M_image_prefix)
        \/ EndsWithAny(filename, {X_txt, X_md, X_pdf, X_docx, X_png, X_jpg, X_jpeg})

PlainText(file) ==
    \/ file.content_type \in {M_text_plain, M_text_markdown}
    \/ EndsWithAny(PyLower(file.filename), {X_txt, X_md})

\* No text can be had from the file: its format is not recognized, or the
\* library that reads its format fails on it.
ExtractionFails(file) ==
    \/ ~RecognizedFormat(file)
    \/ ~PlainText(file) /\ file.parsed.raised

C11_ExtractionFailureIsConfined ==
    (fn_in.fn = "analyze" /\ fn_out.kind # "none" /\ fn_in.file.uploaded) =>
        /\ fn_out.kind = "json"
        /\ fn_out.status = 200
        /\ fn_out.value.file_uploaded
        /\ ExtractionFails(fn_in.file) => fn_out.value.extracted_text = None

====
